---- MODULE Spec2Model ----
(***************************************************************************)
(* Bulk recipe import of Vegan-Bites-Hub: server/csvImport.ts              *)
(* (findOrCreateCuisine, validateS3ImageUrl, importRecipesFromCSV) over    *)
(* the cuisine and recipe tables of server/storage.ts / shared/schema.ts.  *)
(*                                                                         *)
(* A JavaScript string is a sequence of one-character strings, so that     *)
(* trim, toLowerCase, split and includes are computed, not assumed.        *)
(***************************************************************************)
EXTENDS Integers, Sequences, FiniteSets, TLC

(* ----------------------------- bounds ---------------------------------- *)

\* import jobs (calls of importRecipesFromCSV) in one behaviour
MaxJobs == 2
\* CSV data rows over all the jobs of one behaviour
MaxTotalRows == 2
\* calls of storage.deleteCuisine in one behaviour
MaxDeletes == 1
\* storage calls that fail for a reason outside the tables (connection lost,
\* timeout) in one behaviour
MaxFaults == 1

(* ------------------------ JavaScript values ---------------------------- *)

\* the value of a column the parsed row does not have
Undefined == <<"<undefined>">>

\* !v is false: a string that is present and not ''
Truthy(v) == v # Undefined /\ v # <<>>

RECURSIVE trimStart(_)
trimStart(s) == IF s # <<>> /\ Head(s) = " " THEN trimStart(Tail(s)) ELSE s

RECURSIVE trimEnd(_)
trimEnd(s) ==
  IF s # <<>> /\ s[Len(s)] = " " THEN trimEnd(SubSeq(s, 1, Len(s) - 1)) ELSE s

\* String.prototype.trim
trim(s) == trimEnd(trimStart(s))

UpperCaseLetters ==
  <<"A", "B", "C", "D", "E", "F", "G", "H", "I", "J", "K", "L", "M",
    "N", "O", "P", "Q", "R", "S", "T", "U", "V", "W", "X", "Y", "Z">>

LowerCaseLetters ==
  <<"a", "b", "c", "d", "e", "f", "g", "h", "i", "j", "k", "l", "m",
    "n", "o", "p", "q", "r", "s", "t", "u", "v", "w", "x", "y", "z">>

\* String.prototype.toLowerCase
toLowerCase(s) ==
  [k \in 1..Len(s) |->
     IF \E n \in 1..26 : UpperCaseLetters[n] = s[k]
     THEN LowerCaseLetters[CHOOSE n \in 1..26 : UpperCaseLetters[n] = s[k]]
     ELSE s[k]]

\* String.prototype.includes
includes(s, sub) ==
  \E k \in 0..(Len(s) - Len(sub)) : SubSeq(s, k + 1, k + Len(sub)) = sub

RECURSIVE split(_, _)
\* String.prototype.split on a one-character separator
split(s, sep) ==
  IF \E k \in 1..Len(s) : s[k] = sep
  THEN LET k == CHOOSE n \in 1..Len(s) :
                   s[n] = sep /\ \A m \in 1..(n - 1) : s[m] # sep
       IN  <<SubSeq(s, 1, k - 1)>> \o split(SubSeq(s, k + 1, Len(s)), sep)
  ELSE <<s>>

\* Array.prototype.map(tag => tag.trim())
mapTrim(ss) == [k \in 1..Len(ss) |-> trim(ss[k])]

\* the pieces are kept as they are, empty ones included
filterNonEmpty_KeepAll(ss) == ss

\* Array.prototype.filter(tag => tag.length > 0)
filterNonEmpty(ss) == SelectSeq(ss, LAMBDA t : Len(t) > 0)

\* `${v}` in a template literal
Interpolate(v) ==
  IF v = Undefined THEN <<"u", "n", "d", "e", "f", "i", "n", "e", "d">> ELSE v

(* ------------------------- findOrCreateCuisine -------------------------- *)

\* countryToCuisineMap[key]: property lookup on the object literal,
\* exact (case-sensitive) on the key; Undefined when the key is absent
countryToCuisineMap(key) ==
  CASE key = <<"I", "t", "a", "l", "y">>
         -> <<"I", "t", "a", "l", "i", "a", "n">>
    [] key = <<"G", "r", "e", "e", "c", "e">>
         -> <<"G", "r", "e", "e", "k">>
    [] key = <<"M", "e", "x", "i", "c", "o">>
         -> <<"M", "e", "x", "i", "c", "a", "n">>
    [] key = <<"S", "p", "a", "i", "n">>
         -> <<"S", "p", "a", "n", "i", "s", "h">>
    [] key = <<"F", "r", "a", "n", "c", "e">>
         -> <<"F", "r", "e", "n", "c", "h">>
    [] key = <<"C", "h", "i", "n", "a">>
         -> <<"C", "h", "i", "n", "e", "s", "e">>
    [] key = <<"J", "a", "p", "a", "n">>
         -> <<"J", "a", "p", "a", "n", "e", "s", "e">>
    [] key = <<"T", "h", "a", "i", "l", "a", "n", "d">>
         -> <<"T", "h", "a", "i">>
    [] key = <<"I", "n", "d", "i", "a">>
         -> <<"I", "n", "d", "i", "a", "n">>
    [] key = <<"T", "u", "r", "k", "e", "y">>
         -> <<"T", "u", "r", "k", "i", "s", "h">>
    [] key = <<"L", "e", "b", "a", "n", "o", "n">>
         -> <<"L", "e", "b", "a", "n", "e", "s", "e">>
    [] key = <<"M", "o", "r", "o", "c", "c", "o">>
         -> <<"M", "o", "r", "o", "c", "c", "a", "n">>
    [] key = <<"U", "n", "i", "t", "e", "d", " ", "S", "t", "a", "t", "e", "s">>
         -> <<"A", "m", "e", "r", "i", "c", "a", "n">>
    [] key = <<"U", "S", "A">>
         -> <<"A", "m", "e", "r", "i", "c", "a", "n">>
    [] key = <<"U", "K">>
         -> <<"B", "r", "i", "t", "i", "s", "h">>
    [] key = <<"U", "n", "i", "t", "e", "d", " ", "K", "i", "n", "g", "d", "o", "m">>
         -> <<"B", "r", "i", "t", "i", "s", "h">>
    [] OTHER -> Undefined

\* !cuisineName
NoCuisineName_NoTrim(cuisineName) == ~Truthy(cuisineName)

\* !cuisineName || !cuisineName.trim()
NoCuisineName(cuisineName) == ~Truthy(cuisineName) \/ ~Truthy(trim(cuisineName))

\* const cleanName = cuisineName
CleanName_NoTrim(cuisineName) == cuisineName

\* const cleanName = cuisineName.trim()
CleanName(cuisineName) == trim(cuisineName)

\* const searchName = mappedCuisine || cleanName
SearchName(cuisineName) ==
  LET cleanName == CleanName(cuisineName)
      mappedCuisine == countryToCuisineMap(cleanName)
  IN  IF Truthy(mappedCuisine) THEN mappedCuisine ELSE cleanName

\* c.name === searchName
NameMatches_CaseSensitive(c, searchName) == c.name = searchName

\* c.name.toLowerCase() === searchName.toLowerCase()
NameMatches(c, searchName) == toLowerCase(c.name) = toLowerCase(searchName)

\* the argument of storage.createCuisine and the row it inserts
NewCuisine(id, searchName) == [id |-> id, name |-> searchName, isActive |-> TRUE]

(* ----------------------------- storage ---------------------------------- *)

\* the lookup sees no row
getCuisines_None(table) == {}

\* select ... where is_active = true; the order by name only decides which
\* of several matching rows Array.prototype.find sees first
getCuisines(table) == {k \in 1..Len(table) : table[k].isActive}

\* name varchar not null unique: the constraint is on the exact name and
\* covers deactivated rows
UniqueViolation(table, name) == \E k \in 1..Len(table) : table[k].name = name

(* -------------------------- validateS3ImageUrl -------------------------- *)

\* process.env.AWS_S3_BUCKET_NAME
BucketName == <<"v", "b">>

\* imageUrl.includes(bucket) && imageUrl.includes('amazonaws.com')
IsOwnBucketUrl(imageUrl) ==
  /\ includes(imageUrl, BucketName)
  /\ includes(imageUrl, <<"a", "m", "a", "z", "o", "n", "a", "w", "s", ".", "c", "o", "m">>)

\* the URL is dropped when the probe fails
validateS3ImageUrl_DropOnFailure(imageUrl, probe) ==
  IF probe \in {"fetch.notOk", "fetch.throw"} THEN <<>> ELSE imageUrl

\* every return of validateS3ImageUrl hands back its argument
validateS3ImageUrl(imageUrl, probe) == imageUrl

\* row['Image url'] && row['Image url'].trim()
HasImageUrl(row) == Truthy(row.ImageUrl) /\ Truthy(trim(row.ImageUrl))

(* ------------------------- importRecipesFromCSV ------------------------- *)

\* the check without !row.Method
MissingRequired_NoMethod(row) == ~Truthy(row.Title) \/ ~Truthy(row.Ingredients)

\* !row['Recipe Title'] || !row.Ingredients || !row.Method
MissingRequired(row) ==
  ~Truthy(row.Title) \/ ~Truthy(row.Ingredients) \/ ~Truthy(row.Method)

\* an entry of errors: the text is pre \o title \o mid \o arg \o post
Message(pre, title, mid, arg, post) ==
  [pre |-> pre, title |-> title, mid |-> mid, arg |-> arg, post |-> post]

\* the skip message without the || 'Unknown' default
SkipMessage_NoDefault(row) ==
  Message("Skipping recipe \"", Interpolate(row.Title),
          "\": Missing required fields", <<>>, "")

\* `Skipping recipe "${row['Recipe Title'] || 'Unknown'}": Missing required fields`
SkipMessage(row) ==
  Message("Skipping recipe \"",
          IF Truthy(row.Title) THEN row.Title ELSE <<"U", "n", "k", "n", "o", "w", "n">>,
          "\": Missing required fields", <<>>, "")

\* `Recipe "${row['Recipe Title']}": Could not determine cuisine from country "${row.Country}"`
CuisineMessage(row) ==
  Message("Recipe \"", Interpolate(row.Title),
          "\": Could not determine cuisine from country \"",
          Interpolate(row.Country), "\"")

\* the catch message without the title of the row
CatchMessage_NoTitle(row, call) ==
  Message("Error creating recipe \"", <<>>, "\": ", <<>>, call)

\* `Error creating recipe "${row['Recipe Title']}": ${error.message}`
CatchMessage(row, call) ==
  Message("Error creating recipe \"", Interpolate(row.Title), "\": ",
          <<>>, call)

\* Keywords.trim().split(',').map(trim).filter(length > 0), [] when blank
Tags(row) ==
  IF Truthy(row.Keywords) /\ Truthy(trim(row.Keywords))
  THEN filterNonEmpty(mapTrim(split(trim(row.Keywords), ",")))
  ELSE <<>>

\* recipeData with isApproved: true
RecipeData_Approved(row, cuisineId, tags, featuredImageUrl, authorId) ==
  [title |-> trim(row.Title),
   description |-> IF Truthy(row.Intro) THEN trim(row.Intro) ELSE <<>>,
   ingredients |-> trim(row.Ingredients),
   instructions |-> trim(row.Method),
   helpfulNotes |-> IF Truthy(row.HelpfulNotes) THEN trim(row.HelpfulNotes) ELSE <<>>,
   cuisineId |-> cuisineId,
   tags |-> tags,
   featuredImage |-> featuredImageUrl,
   isApproved |-> TRUE,
   authorId |-> authorId]

\* recipeData stored under a fixed author instead of the authorId argument
RecipeData_FixedAuthor(row, cuisineId, tags, featuredImageUrl, authorId) ==
  [title |-> trim(row.Title),
   description |-> IF Truthy(row.Intro) THEN trim(row.Intro) ELSE <<>>,
   ingredients |-> trim(row.Ingredients),
   instructions |-> trim(row.Method),
   helpfulNotes |-> IF Truthy(row.HelpfulNotes) THEN trim(row.HelpfulNotes) ELSE <<>>,
   cuisineId |-> cuisineId,
   tags |-> tags,
   featuredImage |-> featuredImageUrl,
   isApproved |-> FALSE,
   authorId |-> "admin-1"]

\* const recipeData = {...}, with the authorId storage.createRecipe adds
RecipeData(row, cuisineId, tags, featuredImageUrl, authorId) ==
  [title |-> trim(row.Title),
   description |-> IF Truthy(row.Intro) THEN trim(row.Intro) ELSE <<>>,
   ingredients |-> trim(row.Ingredients),
   instructions |-> trim(row.Method),
   helpfulNotes |-> IF Truthy(row.HelpfulNotes) THEN trim(row.HelpfulNotes) ELSE <<>>,
   cuisineId |-> cuisineId,
   tags |-> tags,
   featuredImage |-> featuredImageUrl,
   isApproved |-> FALSE,
   authorId |-> authorId]

\* successCount += 2
Increment_Twice(successCount) == successCount + 2

\* successCount++
Increment(successCount) == successCount + 1

(* ------------------------------- inputs --------------------------------- *)

\* interface CSVRecipe: one parsed data line; a column the line does not
\* have is Undefined, an empty cell is <<>>
Row(title, ingredients, method, country, imageUrl, keywords) ==
  [Title |-> title, Ingredients |-> ingredients, Method |-> method,
   Country |-> country, ImageUrl |-> imageUrl, Keywords |-> keywords,
   Intro |-> Undefined, HelpfulNotes |-> Undefined]

\* data lines with and without the required columns, an image and a country
ValidationRows ==
  { Row(<<"T", "a", "c", "o", "s">>,
        <<"s", "a", "l", "t">>,
        <<"c", "o", "o", "k">>,
        <<"M", "e", "x", "i", "c", "o">>,
        Undefined,
        Undefined),
    Row(<<"S", "o", "u", "p">>,
        <<"s", "a", "l", "t">>,
        Undefined,
        <<"M", "e", "x", "i", "c", "o">>,
        Undefined,
        Undefined),
    Row(Undefined,
        <<>>,
        <<"c", "o", "o", "k">>,
        <<"I", "t", "a", "l", "y">>,
        Undefined,
        Undefined),
    Row(<<" ">>,
        <<"s", "a", "l", "t">>,
        <<"c", "o", "o", "k">>,
        <<"M", "e", "x", "i", "c", "o">>,
        Undefined,
        Undefined),
    Row(<<"P", "i", "z", "z", "a">>,
        <<"s", "a", "l", "t">>,
        <<"c", "o", "o", "k">>,
        <<"I", "t", "a", "l", "y">>,
        <<" ", "x", ".", "i", "o", "/", "a", " ">>,
        <<" ", "a", ",", " ", "b", ",", ",", "c", " ">>),
    Row(<<"C", "h", "i", "l", "i">>,
        <<"s", "a", "l", "t">>,
        <<"c", "o", "o", "k">>,
        <<" ", " ">>,
        Undefined,
        <<" ">>),
    Row(<<"D", "a", "l">>,
        <<"s", "a", "l", "t">>,
        <<"c", "o", "o", "k">>,
        Undefined,
        Undefined,
        Undefined) }

\* data lines that differ in their country
CuisineRows ==
  { Row(<<"P", "i", "z", "z", "a">>,
        <<"s", "a", "l", "t">>,
        <<"c", "o", "o", "k">>,
        <<"I", "t", "a", "l", "y">>,
        <<" ", "x", ".", "i", "o", "/", "a", " ">>,
        <<" ", "a", ",", " ", "b", ",", ",", "c", " ">>),
    Row(<<"P", "a", "s", "t", "a">>,
        <<"s", "a", "l", "t">>,
        <<"c", "o", "o", "k">>,
        <<"i", "t", "a", "l", "y">>,
        <<"v", "b", ".", "s", "3", ".", "a", "m", "a", "z", "o", "n", "a", "w", "s", ".", "c", "o", "m", "/", "a">>,
        Undefined),
    Row(<<"S", "t", "e", "w">>,
        <<"s", "a", "l", "t">>,
        <<"c", "o", "o", "k">>,
        <<"W", "a", "k", "a", "n", "d", "a">>,
        <<" ">>,
        <<" ", " ">>),
    Row(<<"P", "i", "e">>,
        <<"s", "a", "l", "t">>,
        <<"c", "o", "o", "k">>,
        <<" ", "w", "a", "k", "a", "n", "d", "a", " ">>,
        Undefined,
        <<" ", ",", " ">>) }

\* data lines: one with a country of the table, one with an image to probe
\* and a blank country
FeedRows ==
  { Row(<<"R", "i", "c", "e">>,
        <<"s", "a", "l", "t">>,
        <<"c", "o", "o", "k">>,
        <<"I", "t", "a", "l", "y">>,
        Undefined,
        Undefined),
    Row(<<"B", "r", "e", "a", "d">>,
        <<"s", "a", "l", "t">>,
        <<"c", "o", "o", "k">>,
        <<" ">>,
        <<"x", ".", "i", "o", "/", "b">>,
        Undefined) }

(* -------------------------------- state --------------------------------- *)

VARIABLES
  job,         \* per call of importRecipesFromCSV: its locals and position
  cuisines,    \* table cuisines, in insertion order
  cuisineSeq,  \* last value of the serial cuisines.id
  recipes,     \* table recipes, in insertion order
  deletes,     \* calls of storage.deleteCuisine so far
  faults       \* storage calls that failed outside the tables so far

vars == <<job, cuisines, cuisineSeq, recipes, deletes, faults>>

JobIds == 1..MaxJobs

\* a call that has not been made yet
IdleJob ==
  [pc |-> "idle", csv |-> <<>>, authorId |-> "", results |-> <<>>, i |-> 0,
   successCount |-> 0, errors |-> <<>>, featuredImageUrl |-> <<>>,
   tags |-> <<>>, searchName |-> <<>>, cuisineId |-> 0, key |-> <<>>,
   log |-> <<>>,
   resolved |-> FALSE, rejected |-> FALSE,
   result |-> [success |-> 0, errors |-> <<>>]]

\* the call is under way: its promise is pending and its stream is alive
Running(j) == job[j].pc \notin {"idle", "done", "streamError"}

RECURSIVE RowsStarted(_)
RowsStarted(n) == IF n = 0 THEN 0 ELSE Len(job[n].csv) + RowsStarted(n - 1)

\* CSV files of at most n data lines taken from pool
RowSeqs(pool, n) == UNION {[1..m -> pool] : m \in 0..n}

Event(row, op) == [row |-> row, op |-> op]

Init ==
  /\ job = [j \in JobIds |-> IdleJob]
  /\ cuisines = <<>>
  /\ cuisineSeq = 0
  /\ recipes = <<>>
  /\ deletes = 0
  /\ faults = 0

(* ------------------- steps of one importRecipesFromCSV ------------------ *)

\* the row is given up without errors.push(msg)
RecordError_NoPush(J, msg) ==
  [J EXCEPT !.log = Append(@, Event(J.i, "error")),
            !.i = @ + 1, !.pc = "row"]

\* errors.push(msg); continue  (also the end of the catch block)
RecordError(J, msg) ==
  [J EXCEPT !.errors = Append(@, msg),
            !.log = Append(@, Event(J.i, "error")),
            !.i = @ + 1, !.pc = "row"]

\* findOrCreateCuisine up to its first await, after the image and the tags
\* of the row are settled
AfterImage(J, featuredImageUrl) ==
  LET row == J.results[J.i]
      J1 == [J EXCEPT !.featuredImageUrl = featuredImageUrl, !.tags = Tags(row)]
  IN  IF NoCuisineName(row.Country)
      THEN RecordError(J1, CuisineMessage(row))
      ELSE [J1 EXCEPT !.searchName = SearchName(row.Country),
                      !.log = Append(@, Event(J.i, "getCuisines")),
                      !.pc = "getCuisines"]

\* storage.createRecipe is called without await and the loop goes on
CallCreateRecipe_NoAwait(J, cuisineId) ==
  [J EXCEPT !.cuisineId = cuisineId,
            !.log = Append(@, Event(J.i, "createRecipe")),
            !.i = @ + 1, !.pc = "row"]

\* const recipeData = {...}; storage.createRecipe(recipeData, authorId) is called
CallCreateRecipe(J, cuisineId) ==
  [J EXCEPT !.cuisineId = cuisineId,
            !.log = Append(@, Event(J.i, "createRecipe")),
            !.pc = "createRecipe"]

\* importRecipesFromCSV(csvData, authorId): the stream is piped into csv()
StartJob(j, csv, authorId) ==
  /\ job[j].pc = "idle"
  /\ \A k \in 1..(j - 1) : job[k].pc # "idle"
  /\ RowsStarted(MaxJobs) + Len(csv) <= MaxTotalRows
  /\ job' = [job EXCEPT ![j] = [IdleJob EXCEPT !.pc = "parsing", !.csv = csv,
                                                !.authorId = authorId]]
  /\ UNCHANGED <<cuisines, cuisineSeq, recipes, deletes, faults>>

\* .on('data', data => results.push(data))
OnData(j) ==
  /\ job[j].pc = "parsing"
  /\ Len(job[j].results) < Len(job[j].csv)
  /\ job' = [job EXCEPT ![j].results =
                           Append(@, job[j].csv[Len(job[j].results) + 1])]
  /\ UNCHANGED <<cuisines, cuisineSeq, recipes, deletes, faults>>

\* .on('end', async () => { for (const row of results) ...
OnEnd(j) ==
  /\ job[j].pc = "parsing"
  /\ Len(job[j].results) = Len(job[j].csv)
  /\ job' = [job EXCEPT ![j].pc = "row", ![j].i = 1]
  /\ UNCHANGED <<cuisines, cuisineSeq, recipes, deletes, faults>>

\* the parser emits 'error': the chain has listeners for 'data' and 'end'
\* only and the executor takes no reject, so 'end' never comes and the
\* promise stays pending
OnError(j) ==
  /\ job[j].pc = "parsing"
  /\ job' = [job EXCEPT ![j].pc = "streamError"]
  /\ UNCHANGED <<cuisines, cuisineSeq, recipes, deletes, faults>>

\* one iteration of the loop up to its first await
ProcessRow(j) ==
  LET J == job[j]
      row == J.results[J.i]
      imageUrl == trim(row.ImageUrl)
  IN  /\ J.pc = "row"
      /\ J.i <= Len(J.results)
      /\ job' = [job EXCEPT ![j] =
           IF MissingRequired(row)
           THEN RecordError(J, SkipMessage(row))
           ELSE IF ~HasImageUrl(row)
           THEN AfterImage(J, <<>>)
           ELSE IF IsOwnBucketUrl(imageUrl)
           THEN AfterImage(J, validateS3ImageUrl(imageUrl, "own"))
           ELSE [J EXCEPT !.log = Append(@, Event(J.i, "fetch")),
                          !.pc = "fetch"]]
      /\ UNCHANGED <<cuisines, cuisineSeq, recipes, deletes, faults>>

\* a request that throws reaches the catch block of the loop
FetchReturn_ThrowFails(j, probe) ==
  LET J == job[j]
      row == J.results[J.i]
      J1 == [J EXCEPT !.log = Append(@, Event(J.i, probe))]
  IN  /\ J.pc = "fetch"
      /\ job' = [job EXCEPT ![j] =
           IF probe = "fetch.throw"
           THEN RecordError(J1, CatchMessage(row, "fetch"))
           ELSE AfterImage(J1, validateS3ImageUrl(trim(row.ImageUrl), probe))]
      /\ UNCHANGED <<cuisines, cuisineSeq, recipes, deletes, faults>>

\* await fetch(imageUrl, { method: 'HEAD' }) settles: ok, not ok, or throws
FetchReturn(j, probe) ==
  LET J == job[j]
      row == J.results[J.i]
  IN  /\ J.pc = "fetch"
      /\ job' = [job EXCEPT ![j] =
           AfterImage([J EXCEPT !.log = Append(@, Event(J.i, probe))],
                      validateS3ImageUrl(trim(row.ImageUrl), probe))]
      /\ UNCHANGED <<cuisines, cuisineSeq, recipes, deletes, faults>>

\* await storage.getCuisines() settles and cuisines.find(...) runs
GetCuisinesReturn(j, k) ==
  LET J == job[j]
      found == {n \in getCuisines(cuisines) : NameMatches(cuisines[n], J.searchName)}
  IN  /\ J.pc = "getCuisines"
      /\ IF found = {} THEN k = 0 ELSE k \in found
      /\ job' = [job EXCEPT ![j] =
           IF k = 0
           THEN [J EXCEPT !.log = Append(@, Event(J.i, "createCuisine")),
                          !.pc = "createCuisine"]
           ELSE CallCreateRecipe(
                  [J EXCEPT !.log = Append(@, Event(J.i, "existingCuisine"))],
                  cuisines[k].id)]
      /\ UNCHANGED <<cuisines, cuisineSeq, recipes, deletes, faults>>

\* the rejection of storage.getCuisines is not caught: the 'end' handler
\* ends there and resolve is never called
GetCuisinesThrow_Unhandled(j) ==
  LET J == job[j]
  IN  /\ J.pc = "getCuisines"
      /\ faults < MaxFaults
      /\ faults' = faults + 1
      /\ job' = [job EXCEPT ![j] =
           [J EXCEPT !.log = Append(@, Event(J.i, "getCuisines.throw")),
                     !.pc = "unhandled"]]
      /\ UNCHANGED <<cuisines, cuisineSeq, recipes, deletes>>

\* await storage.getCuisines() rejects: the catch block of the loop
GetCuisinesThrow(j) ==
  LET J == job[j]
  IN  /\ J.pc = "getCuisines"
      /\ faults < MaxFaults
      /\ faults' = faults + 1
      /\ job' = [job EXCEPT ![j] =
           RecordError([J EXCEPT !.log = Append(@, Event(J.i, "getCuisines.throw"))],
                       CatchMessage(J.results[J.i], "getCuisines"))]
      /\ UNCHANGED <<cuisines, cuisineSeq, recipes, deletes>>

\* await storage.createCuisine({name: searchName, isActive: true}) returns
CreateCuisineReturn(j) ==
  LET J == job[j]
      id == cuisineSeq + 1
  IN  /\ J.pc = "createCuisine"
      /\ ~UniqueViolation(cuisines, J.searchName)
      /\ cuisineSeq' = id
      /\ cuisines' = Append(cuisines, NewCuisine(id, J.searchName))
      /\ job' = [job EXCEPT ![j] =
           CallCreateRecipe(
             [J EXCEPT !.log = Append(@, Event(J.i, "newCuisine"))], id)]
      /\ UNCHANGED <<recipes, deletes, faults>>

\* the rejection of storage.createCuisine ends the job
CreateCuisineThrow_Abort(j, unique) ==
  LET J == job[j]
  IN  /\ J.pc = "createCuisine"
      /\ unique = UniqueViolation(cuisines, J.searchName)
      /\ unique \/ faults < MaxFaults
      /\ faults' = IF unique THEN faults ELSE faults + 1
      /\ cuisineSeq' = IF unique THEN cuisineSeq + 1 ELSE cuisineSeq
      /\ job' = [job EXCEPT ![j] =
           [J EXCEPT !.log = Append(@, Event(J.i, "createCuisine.throw")),
                     !.pc = "done"]]
      /\ UNCHANGED <<cuisines, recipes, deletes>>

\* await storage.createCuisine(...) rejects (unique name taken, or the
\* database fails): catch, return null, and the caller records the row
CreateCuisineThrow(j, unique) ==
  LET J == job[j]
  IN  /\ J.pc = "createCuisine"
      /\ unique = UniqueViolation(cuisines, J.searchName)
      /\ unique \/ faults < MaxFaults
      /\ faults' = IF unique THEN faults ELSE faults + 1
      \* nextval is consumed by an insert that fails on the constraint
      /\ cuisineSeq' = IF unique THEN cuisineSeq + 1 ELSE cuisineSeq
      /\ job' = [job EXCEPT ![j] =
           RecordError([J EXCEPT !.log = Append(@, Event(J.i, "createCuisine.throw"))],
                       CuisineMessage(J.results[J.i]))]
      /\ UNCHANGED <<cuisines, recipes, deletes>>

\* await storage.createRecipe(recipeData, authorId) returns; successCount++
CreateRecipeReturn(j) ==
  LET J == job[j]
      row == J.results[J.i]
  IN  /\ J.pc = "createRecipe"
      /\ recipes' = Append(recipes,
           RecipeData(row, J.cuisineId, J.tags, J.featuredImageUrl, J.authorId))
      /\ job' = [job EXCEPT ![j] =
           [J EXCEPT !.successCount = Increment(@),
                     !.log = Append(@, Event(J.i, "success")),
                     !.i = @ + 1, !.pc = "row"]]
      /\ UNCHANGED <<cuisines, cuisineSeq, deletes, faults>>

\* the cuisine the row created is taken back when its recipe is not stored
CreateRecipeThrow_Rollback(j) ==
  LET J == job[j]
  IN  /\ J.pc = "createRecipe"
      /\ faults < MaxFaults
      /\ faults' = faults + 1
      /\ cuisines' = IF \E k \in 1..Len(J.log) : J.log[k] = Event(J.i, "newCuisine")
                     THEN SubSeq(cuisines, 1, Len(cuisines) - 1)
                     ELSE cuisines
      /\ job' = [job EXCEPT ![j] =
           RecordError([J EXCEPT !.log = Append(@, Event(J.i, "createRecipe.throw"))],
                       CatchMessage(J.results[J.i], "createRecipe"))]
      /\ UNCHANGED <<cuisineSeq, recipes, deletes>>

\* the row is counted in success although the call rejects
CreateRecipeThrow_Counted(j) ==
  LET J == job[j]
  IN  /\ J.pc = "createRecipe"
      /\ faults < MaxFaults
      /\ faults' = faults + 1
      /\ job' = [job EXCEPT ![j] =
           RecordError([J EXCEPT !.successCount = Increment(@),
                                 !.log = Append(@, Event(J.i, "createRecipe.throw"))],
                       CatchMessage(J.results[J.i], "createRecipe"))]
      /\ UNCHANGED <<cuisines, cuisineSeq, recipes, deletes>>

\* the insert is kept although the call rejects
CreateRecipeThrow_Stored(j) ==
  LET J == job[j]
  IN  /\ J.pc = "createRecipe"
      /\ faults < MaxFaults
      /\ faults' = faults + 1
      /\ recipes' = Append(recipes,
           RecipeData(J.results[J.i], J.cuisineId, J.tags, J.featuredImageUrl,
                      J.authorId))
      /\ job' = [job EXCEPT ![j] =
           RecordError([J EXCEPT !.log = Append(@, Event(J.i, "createRecipe.throw"))],
                       CatchMessage(J.results[J.i], "createRecipe"))]
      /\ UNCHANGED <<cuisines, cuisineSeq, deletes>>

\* await storage.createRecipe(...) rejects: the catch block of the loop
CreateRecipeThrow(j) ==
  LET J == job[j]
  IN  /\ J.pc = "createRecipe"
      /\ faults < MaxFaults
      /\ faults' = faults + 1
      /\ job' = [job EXCEPT ![j] =
           RecordError([J EXCEPT !.log = Append(@, Event(J.i, "createRecipe.throw"))],
                       CatchMessage(J.results[J.i], "createRecipe"))]
      /\ UNCHANGED <<cuisines, cuisineSeq, recipes, deletes>>

\* resolve({ success: successCount, errors: errors })
Resolve(j) ==
  LET J == job[j]
  IN  /\ J.pc = "row"
      /\ J.i > Len(J.results)
      /\ job' = [job EXCEPT ![j] =
           [J EXCEPT !.pc = "done", !.resolved = TRUE,
                     !.result = [success |-> J.successCount, errors |-> J.errors]]]
      /\ UNCHANGED <<cuisines, cuisineSeq, recipes, deletes, faults>>

(* ------------------------------ storage --------------------------------- *)

\* storage.deleteCuisine(id): update cuisines set is_active = false
DeleteCuisine(k) ==
  /\ deletes < MaxDeletes
  /\ k \in 1..Len(cuisines)
  /\ deletes' = deletes + 1
  /\ cuisines' = [cuisines EXCEPT ![k].isActive = FALSE]
  /\ UNCHANGED <<job, cuisineSeq, recipes, faults>>

(* ------------------------- public recipe routes ------------------------- *)

\* a query parameter the request does not carry
Absent == "<absent>"

\* what a client can put in the query string of GET /api/recipes
Queries == [isApproved : {Absent, "true", "false"}, authorId : {Absent, "admin-1"}]

\* storage.getRecipes(filters): the rows that pass the isApproved and
\* authorId conditions, each applied only when the filter is given
getRecipes(table, filters) ==
  {k \in 1..Len(table) :
     /\ filters.hasIsApproved => table[k].isApproved = filters.isApproved
     /\ filters.authorId # Absent => table[k].authorId = filters.authorId}

\* GET /api/recipes of the session routes: isApproved is fixed to true
ListRecipesSession(table, query) ==
  getRecipes(table, [hasIsApproved |-> TRUE, isApproved |-> TRUE,
                     authorId |-> query.authorId])

\* GET /api/recipes/:id of the session routes: 404 for an unapproved recipe
\* unless the session user is an admin
GetRecipeSession(table, id, role) ==
  IF id \notin 1..Len(table) THEN {}
  ELSE IF ~table[id].isApproved /\ role # "admin" THEN {}
  ELSE {id}

\* GET /api/recipes of the replitAuth routes: isApproved is read from the
\* query string, "true" when absent
ListRecipesReplit(table, query) ==
  LET isApproved == IF query.isApproved = Absent THEN "true" ELSE query.isApproved
  IN  getRecipes(table, [hasIsApproved |-> TRUE, isApproved |-> (isApproved = "true"),
                         authorId |-> Absent])

\* GET /api/recipes/:id of the replitAuth routes: the recipe, if there is one
GetRecipeReplit(table, id) == IF id \in 1..Len(table) THEN {id} ELSE {}

\* GET /api/recipes of newRoutes: isApproved is fixed to true
ListRecipesNew(table, query) ==
  getRecipes(table, [hasIsApproved |-> TRUE, isApproved |-> TRUE,
                     authorId |-> Absent])

(* --------------------------- specifications ----------------------------- *)

\* the import endpoint is called again only after the previous call returned
Sequential == \A j \in JobIds : ~Running(j)

JobStep(j) ==
  \/ OnData(j)
  \/ OnEnd(j)
  \/ ProcessRow(j)
  \/ \E probe \in {"fetch.ok", "fetch.notOk", "fetch.throw"} : FetchReturn(j, probe)
  \/ \E k \in 0..Len(cuisines) : GetCuisinesReturn(j, k)
  \/ GetCuisinesThrow(j)
  \/ CreateCuisineReturn(j)
  \/ \E unique \in BOOLEAN : CreateCuisineThrow(j, unique)
  \/ CreateRecipeReturn(j)
  \/ CreateRecipeThrow(j)
  \/ Resolve(j)

\* the steps of the system when the CSV files are made of the lines of pool
\* and the callers are authors
Step(pool, authors) ==
  \/ /\ Sequential
     /\ \E j \in JobIds :
          /\ job[j].pc = "idle"
          /\ \E csv \in RowSeqs(pool, MaxTotalRows - RowsStarted(MaxJobs)), a \in authors :
               \* input bound: only the first file may be without data lines
               /\ Len(csv) > 0 \/ j = 1
               /\ StartJob(j, csv, a)
  \/ \E j \in JobIds : JobStep(j)
  \/ /\ Sequential
     /\ \E k \in 1..Len(cuisines) : DeleteCuisine(k)

Next == Step(ValidationRows, {"admin-1"})

NextCuisines == Step(CuisineRows, {"admin-1"})

Spec == Init /\ [][Next]_vars

SpecCuisines == Init /\ [][NextCuisines]_vars

\* feeds the parser may fail on, imported by either of two administrators
NextFeeds ==
  \/ Step(FeedRows, {"admin-1", "admin-2"})
  \/ \E j \in JobIds : OnError(j)

\* every awaited call settles, so the continuation of a job that can run
\* does run
SpecFeeds == Init /\ [][NextFeeds]_vars /\ \A j \in JobIds : WF_vars(JobStep(j))


(* ------------- fetch-and-store variant of the import (part_007) --------- *)

\* process.env.AWS_S3_REGION
Region == <<"e", "u">>

Digits == <<"0", "1", "2", "3", "4", "5", "6", "7", "8", "9">>

\* the character class [a-z0-9]
IsSafeChar(c) ==
  \/ \E n \in 1..26 : LowerCaseLetters[n] = c
  \/ \E n \in 1..10 : Digits[n] = c

\* .replace(/[^a-z0-9]/g, '-')
replaceUnsafe(s) == [k \in 1..Len(s) |-> IF IsSafeChar(s[k]) THEN s[k] ELSE "-"]

RECURSIVE collapseDashes(_)
\* .replace(/-+/g, '-')
collapseDashes(s) ==
  IF Len(s) < 2 THEN s
  ELSE IF s[1] = "-" /\ s[2] = "-" THEN collapseDashes(Tail(s))
  ELSE <<s[1]>> \o collapseDashes(Tail(s))

\* .replace(/^-|-$/g, '')
stripDashes(s) ==
  LET s1 == IF s # <<>> /\ Head(s) = "-" THEN Tail(s) ELSE s
  IN  IF s1 # <<>> /\ s1[Len(s1)] = "-" THEN SubSeq(s1, 1, Len(s1) - 1) ELSE s1

\* const safeFileName = recipeTitle.toLowerCase().replace(...)...
SafeFileName(recipeTitle) ==
  stripDashes(collapseDashes(replaceUnsafe(toLowerCase(recipeTitle))))

\* response.headers.get('content-type') || 'image/jpeg', and
\* contentType.includes('png') ? 'png' : 'jpg'
FileExtension(header) ==
  LET contentType == IF Truthy(header) THEN header ELSE <<"i", "m", "a", "g", "e", "/", "j", "p", "e", "g">>
  IN  IF includes(contentType, <<"p", "n", "g">>)
      THEN <<"p", "n", "g">>
      ELSE <<"j", "p", "g">>

\* `recipe-images/${safeFileName}-${Date.now()}.${fileExtension}`
ObjectKey(recipeTitle, now, header) ==
  <<"r", "e", "c", "i", "p", "e", "-", "i", "m", "a", "g", "e", "s", "/">> \o SafeFileName(recipeTitle)
    \o <<"-">> \o now \o <<".">> \o FileExtension(header)

\* `https://${bucket}.s3.${region}.amazonaws.com/${key}`
PublicUrl(key) ==
  <<"h", "t", "t", "p", "s", ":", "/", "/">> \o BucketName \o <<".", "s", "3", ".">> \o Region
    \o <<".", "a", "m", "a", "z", "o", "n", "a", "w", "s", ".", "c", "o", "m", "/">> \o key

\* a failed download or upload drops the image
uploadImageToS3_EmptyOnFailure(imageUrl, key, outcome) ==
  IF outcome = "upload.ok" THEN PublicUrl(key) ELSE <<>>

\* what uploadImageToS3 returns: the public URL after s3Client.send
\* returned, and from the catch block the imageUrl it was given
uploadImageToS3(imageUrl, key, outcome) ==
  IF outcome = "upload.ok" THEN PublicUrl(key) ELSE imageUrl

\* Array.prototype.filter(Boolean) on strings
filterBoolean(ss) == SelectSeq(ss, LAMBDA t : t # <<>>)

\* const recipeData = {...} of the variant, with the authorId
\* storage.createRecipe adds
RecipeDataUpload(row, featuredImageUrl, authorId) ==
  [title |-> trim(row.Title),
   description |-> IF Truthy(row.Intro) THEN trim(row.Intro) ELSE <<>>,
   ingredients |-> filterBoolean(split(trim(row.Ingredients), "\n")),
   instructions |-> filterBoolean(split(trim(row.Method), "\n")),
   prepTime |-> 30,
   cookTime |-> 45,
   servings |-> 4,
   difficulty |-> "medium",
   cuisine |-> IF Truthy(row.Country) THEN trim(row.Country) ELSE <<>>,
   tags |-> <<>>,
   notes |-> IF Truthy(row.HelpfulNotes) THEN trim(row.HelpfulNotes) ELSE <<>>,
   featuredImage |-> featuredImageUrl,
   isApproved |-> FALSE,
   authorId |-> authorId]

\* data lines with an image to fetch, without one, and without a method
UploadRows ==
  { Row(<<"M", "y", " ", "P", "i", "e", "!">>,
        <<"s", "a", "l", "t", "\n", "\n", "o", "i", "l">>,
        <<"c", "o", "o", "k">>,
        <<" ", "I", "t", "a", "l", "y">>,
        <<" ", "x", ".", "i", "o", "/", "a", " ">>,
        Undefined),
    Row(<<"D", "a", "l">>,
        <<"s", "a", "l", "t">>,
        <<"c", "o", "o", "k">>,
        Undefined,
        <<" ">>,
        Undefined),
    Row(<<"S", "o", "u", "p">>,
        <<"s", "a", "l", "t">>,
        <<>>,
        Undefined,
        <<"x", ".", "i", "o", "/", "b">>,
        Undefined) }

\* the values of the content-type header of the downloaded image
ContentTypes == {Undefined, <<"i", "m", "a", "g", "e", "/", "p", "n", "g">>, <<"i", "m", "a", "g", "e", "/", "g", "i", "f">>}

\* the values of Date.now()
Clock == {<<"1">>, <<"2">>}

\* const recipeData = {...}; storage.createRecipe(recipeData, authorId) is called
CallCreateRecipeUpload(J, featuredImageUrl) ==
  [J EXCEPT !.featuredImageUrl = featuredImageUrl,
            !.log = Append(@, Event(J.i, "createRecipe")),
            !.pc = "createRecipe"]

\* one iteration of the loop up to its first await
ProcessRowUpload(j) ==
  LET J == job[j]
      row == J.results[J.i]
  IN  /\ J.pc = "row"
      /\ J.i <= Len(J.results)
      /\ job' = [job EXCEPT ![j] =
           IF MissingRequired(row)
           THEN RecordError(J, SkipMessage(row))
           ELSE IF ~HasImageUrl(row)
           THEN CallCreateRecipeUpload(J, <<>>)
           ELSE [J EXCEPT !.log = Append(@, Event(J.i, "download")),
                          !.pc = "download"]]
      /\ UNCHANGED <<cuisines, cuisineSeq, recipes, deletes, faults>>

\* await fetch(imageUrl) and await response.buffer() settle: with the image,
\* with a response that is not ok, or by throwing; with the image the key
\* is made and s3Client.send is called
DownloadReturn(j, outcome, header, now) ==
  LET J == job[j]
      row == J.results[J.i]
      J1 == [J EXCEPT !.log = Append(@, Event(J.i, outcome))]
  IN  /\ J.pc = "download"
      /\ job' = [job EXCEPT ![j] =
           IF outcome = "download.ok"
           THEN [J1 EXCEPT !.key = ObjectKey(row.Title, now, header),
                           !.pc = "upload"]
           ELSE CallCreateRecipeUpload(J1,
                  uploadImageToS3(trim(row.ImageUrl), <<>>, outcome))]
      /\ UNCHANGED <<cuisines, cuisineSeq, recipes, deletes, faults>>

\* await s3Client.send(uploadCommand) returns or throws
UploadReturn(j, outcome) ==
  LET J == job[j]
      row == J.results[J.i]
  IN  /\ J.pc = "upload"
      /\ job' = [job EXCEPT ![j] =
           CallCreateRecipeUpload(
             [J EXCEPT !.log = Append(@, Event(J.i, outcome))],
             uploadImageToS3(trim(row.ImageUrl), J.key, outcome))]
      /\ UNCHANGED <<cuisines, cuisineSeq, recipes, deletes, faults>>

\* await storage.createRecipe(recipeData, authorId) returns; successCount++
CreateRecipeReturnUpload(j) ==
  LET J == job[j]
      row == J.results[J.i]
  IN  /\ J.pc = "createRecipe"
      /\ recipes' = Append(recipes,
           RecipeDataUpload(row, J.featuredImageUrl, J.authorId))
      /\ job' = [job EXCEPT ![j] =
           [J EXCEPT !.successCount = Increment(@),
                     !.log = Append(@, Event(J.i, "success")),
                     !.i = @ + 1, !.pc = "row"]]
      /\ UNCHANGED <<cuisines, cuisineSeq, deletes, faults>>

UploadJobStep(j) ==
  \/ OnData(j)
  \/ OnEnd(j)
  \/ ProcessRowUpload(j)
  \/ \E outcome \in {"download.ok", "download.notOk", "download.throw", "buffer.throw"},
        header \in ContentTypes, now \in Clock :
       DownloadReturn(j, outcome, header, now)
  \/ \E outcome \in {"upload.ok", "upload.throw"} : UploadReturn(j, outcome)
  \/ CreateRecipeReturnUpload(j)
  \/ CreateRecipeThrow(j)
  \/ Resolve(j)

NextUpload ==
  \/ /\ Sequential
     /\ \E j \in JobIds :
          \E csv \in RowSeqs(UploadRows, MaxTotalRows - RowsStarted(MaxJobs)) :
            /\ Len(csv) > 0 \/ j = 1
            /\ StartJob(j, csv, "admin-1")
  \/ \E j \in JobIds : UploadJobStep(j)

SpecUpload == Init /\ [][NextUpload]_vars

(* ------------------------ overlapping requests -------------------------- *)

\* POST /api/admin/import-csv awaits importRecipesFromCSV inside an async
\* handler: a second request is served while the first one waits, so the
\* steps of the two calls interleave at their awaits
NextConcurrent ==
  \/ \E j \in JobIds :
       \E csv \in RowSeqs(CuisineRows, MaxTotalRows - RowsStarted(MaxJobs)) :
         /\ Len(csv) > 0 \/ j = 1
         /\ StartJob(j, csv, "admin-1")
  \/ \E j \in JobIds : JobStep(j)

SpecConcurrent == Init /\ [][NextConcurrent]_vars

(* ----------------------- the same file imported again ------------------- *)

\* the line whose import left the cuisine "Wakanda"
StewRow ==
  Row(<<"S", "t", "e", "w">>,
      <<"s", "a", "l", "t">>,
      <<"c", "o", "o", "k">>,
      <<"W", "a", "k", "a", "n", "d", "a">>,
      <<" ">>,
      <<" ", " ">>)

\* the tables before the first of the two imports: empty, or as the import
\* of StewRow followed by storage.deleteCuisine(1) leaves them
InitRerun ==
  /\ job = [j \in JobIds |-> IdleJob]
  /\ faults = 0
  /\ \/ /\ cuisines = <<>>
        /\ cuisineSeq = 0
        /\ recipes = <<>>
        /\ deletes = 0
     \/ /\ cuisines = <<[NewCuisine(1, SearchName(StewRow.Country))
                           EXCEPT !.isActive = FALSE]>>
        /\ cuisineSeq = 1
        /\ recipes = <<RecipeData(StewRow, 1, Tags(StewRow), <<>>, "admin-1")>>
        /\ deletes = 1

\* importRecipesFromCSV is called with the csvData of the call that has
\* just returned
ImportAgain(j) ==
  /\ j > 1
  /\ job[j].pc = "idle"
  /\ job[j - 1].resolved
  /\ job' = [job EXCEPT ![j] = [IdleJob EXCEPT !.pc = "parsing",
                                                !.csv = job[j - 1].csv,
                                                !.authorId = job[j - 1].authorId]]
  /\ UNCHANGED <<cuisines, cuisineSeq, recipes, deletes, faults>>

NextRerun ==
  \/ \E csv \in RowSeqs(CuisineRows, MaxTotalRows) : StartJob(1, csv, "admin-1")
  \/ \E j \in JobIds : ImportAgain(j)
  \/ \E j \in JobIds : JobStep(j)

SpecRerun == InitRerun /\ [][NextRerun]_vars

(* ------------------------ reading a job's history ----------------------- *)

Started == {j \in JobIds : job[j].pc # "idle"}

\* the operations of row r of job J, in order
RowOps(J, r) ==
  LET es == SelectSeq(J.log, LAMBDA e : e.row = r)
  IN  [k \in 1..Len(es) |-> es[k].op]

Did(J, r, op) == \E k \in 1..Len(J.log) : J.log[k] = Event(r, op)

Times(J, r, op) == Cardinality({k \in 1..Len(J.log) : J.log[k] = Event(r, op)})

\* row r reached its terminal outcome
Terminal(J, r) == Did(J, r, "success") \/ Did(J, r, "error")

TerminalRows(J) == {r \in 1..Len(J.results) : Terminal(J, r)}

\* the entry of errors that row r appended (r has an "error" event)
ErrorOf(J, r) ==
  J.errors[Cardinality({k \in 1..Len(J.log) :
                          J.log[k].op = "error" /\ J.log[k].row <= r})]

\* a storage call made for row r threw
StorageThrew(J, r) ==
  \/ Did(J, r, "getCuisines.throw")
  \/ Did(J, r, "createCuisine.throw")
  \/ Did(J, r, "createRecipe.throw")

\* the column is absent or the empty string
Missing(v) == v = Undefined \/ v = <<>>

\* the column is absent or has nothing but blanks
Blank(v) == v = Undefined \/ \A k \in 1..Len(v) : v[k] = " "

(* -------------------------------- C1 ------------------------------------ *)

\* C1: at every point of a job, success + |errors| is the number of rows
\* that have reached a terminal outcome; every such row added 1 to exactly
\* one of the two; the rows before the current one are all terminal and no
\* later row is; and the result returned over N parsed rows has
\* success + |errors| = N.
C1_Accounting ==
  \A j \in Started :
    LET J == job[j]
    IN  /\ J.successCount + Len(J.errors) = Cardinality(TerminalRows(J))
        /\ J.successCount =
             Cardinality({r \in 1..Len(J.results) : Did(J, r, "success")})
        /\ Len(J.errors) =
             Cardinality({r \in 1..Len(J.results) : Did(J, r, "error")})
        /\ \A r \in 1..Len(J.results) :
             /\ Times(J, r, "success") + Times(J, r, "error") <= 1
             /\ Terminal(J, r) <=> (J.pc \notin {"parsing"} /\ r < J.i)
        /\ J.resolved =>
             /\ J.result.success + Len(J.result.errors) = Len(J.csv)
             /\ J.result.success = J.successCount
             /\ J.result.errors = J.errors

\* a job returned after one row succeeded and another one failed
C1_Witness ==
  \E j \in Started :
    /\ job[j].resolved
    /\ job[j].result.success = 1
    /\ Len(job[j].result.errors) = 1


\* Recipe Title, Ingredients and Method are present and not blank
NonBlankRequired(row) ==
  ~Blank(row.Title) /\ ~Blank(row.Ingredients) /\ ~Blank(row.Method)

\* Recipe Title, Ingredients or Method is missing
MissingAnyRequired(row) ==
  Missing(row.Title) \/ Missing(row.Ingredients) \/ Missing(row.Method)

\* the text 'Skipping recipe "T": Missing required fields'
SkippingText(title) ==
  [pre |-> "Skipping recipe \"", title |-> title,
   mid |-> "\": Missing required fields", arg |-> <<>>, post |-> ""]

(* -------------------------------- C2 ------------------------------------ *)

\* C2: every row whose Recipe Title, Ingredients and Method are non-blank
\* and whose Country resolves to a cuisine (it is not blank and neither
\* storage.getCuisines nor storage.createCuisine threw for the row) reaches
\* storage.createRecipe exactly once; when that call returns the row counts
\* 1 in success, appends nothing to errors, and success is the number of
\* such rows.
C2_ValidRowCreated ==
  \A j \in Started :
    LET J == job[j]
    IN  /\ J.successCount =
             Cardinality({r \in 1..Len(J.results) : Did(J, r, "success")})
        /\ \A r \in 1..Len(J.results) :
             ( /\ Terminal(J, r)
               /\ NonBlankRequired(J.results[r])
               /\ ~Blank(J.results[r].Country)
               /\ ~Did(J, r, "getCuisines.throw")
               /\ ~Did(J, r, "createCuisine.throw") )
             => /\ Times(J, r, "createRecipe") = 1
                /\ ~Did(J, r, "createRecipe.throw")
                     => /\ Times(J, r, "success") = 1
                        /\ ~Did(J, r, "error")

\* a job returned after a complete row with a country was stored
C2_Witness ==
  \E j \in Started :
    /\ job[j].resolved
    /\ \E r \in 1..Len(job[j].results) :
         /\ NonBlankRequired(job[j].results[r])
         /\ ~Blank(job[j].results[r].Country)
         /\ Did(job[j], r, "success")
         /\ job[j].result.success >= 1

(* -------------------------------- C3 ------------------------------------ *)

\* C3: a row missing Recipe Title, Ingredients or Method makes no storage or
\* network call, leaves success alone and appends exactly the one string
\* 'Skipping recipe "T": Missing required fields', T being its title or
\* 'Unknown'; and a first import of the row (Tacos, salt, cook, Mexico)
\* followed by a row without Method, with no storage call failing, returns
\* success = 1 and that one error, and leaves one cuisine 'Mexican' and one
\* recipe.
C3_MissingFieldsSkipped ==
  \A j \in Started :
    LET J == job[j]
        Tacos == Row(<<"T", "a", "c", "o", "s">>, <<"s", "a", "l", "t">>,
                     <<"c", "o", "o", "k">>,
                     <<"M", "e", "x", "i", "c", "o">>, Undefined, Undefined)
    IN  /\ \A r \in 1..Len(J.results) :
             (Terminal(J, r) /\ MissingAnyRequired(J.results[r]))
             => /\ RowOps(J, r) = <<"error">>
                /\ ErrorOf(J, r) =
                     SkippingText(IF Missing(J.results[r].Title)
                                  THEN <<"U", "n", "k", "n", "o", "w", "n">>
                                  ELSE J.results[r].Title)
        /\ ( /\ Started = {j}
             /\ J.resolved
             /\ Len(J.csv) = 2
             /\ J.csv[1] = Tacos
             /\ J.csv[2].Method = Undefined
             /\ \A r \in 1..2 : ~StorageThrew(J, r) )
           => /\ J.result.success = 1
              /\ J.result.errors =
                   <<SkippingText(IF Missing(J.csv[2].Title)
                                  THEN <<"U", "n", "k", "n", "o", "w", "n">>
                                  ELSE J.csv[2].Title)>>
              /\ Len(cuisines) = 1
              /\ cuisines[1].name = <<"M", "e", "x", "i", "c", "a", "n">>
              /\ Len(recipes) = 1

\* the first import returned from the Tacos row followed by a row without
\* Method
C3_Witness ==
  /\ Started = {1}
  /\ job[1].resolved
  /\ Len(job[1].csv) = 2
  /\ job[1].csv[1].Title = <<"T", "a", "c", "o", "s">>
  /\ job[1].csv[2].Method = Undefined
  /\ \A r \in 1..2 : ~StorageThrew(job[1], r)

(* -------------------------------- C4 ------------------------------------ *)

\* the row was rejected by the validation of the required columns
Skipped(J, r) ==
  /\ RowOps(J, r) = <<"error">>
  /\ ErrorOf(J, r).pre = "Skipping recipe \""

\* C4: a row passes validation if and only if Recipe Title, Ingredients and
\* Method are all present and non-blank after trimming; a row in which one
\* of them is only whitespace is rejected and no recipe comes from it.
C4_ValidationIffNonBlank ==
  /\ \A j \in Started :
       \A r \in 1..Len(job[j].results) :
         Terminal(job[j], r)
         => (~Skipped(job[j], r) <=> NonBlankRequired(job[j].results[r]))
  /\ \A k \in 1..Len(recipes) :
       /\ recipes[k].title # <<>>
       /\ recipes[k].ingredients # <<>>
       /\ recipes[k].instructions # <<>>

(* -------------------------------- C5 ------------------------------------ *)

\* C5: the step that takes up a row failing validation makes no call
\* (storage.getCuisines, storage.createCuisine, fetch, storage.createRecipe):
\* it only records the error and moves to the next row, and the cuisine and
\* recipe tables are as before.
C5_InvalidRowTouchesNothing ==
  [][\A j \in JobIds :
       ( /\ job[j].pc = "row"
         /\ job[j].i <= Len(job[j].results)
         /\ MissingAnyRequired(job[j].results[job[j].i])
         /\ job'[j] # job[j] )
       => /\ cuisines' = cuisines
          /\ cuisineSeq' = cuisineSeq
          /\ recipes' = recipes
          /\ job'[j].log = Append(job[j].log, Event(job[j].i, "error"))
          /\ job'[j].successCount = job[j].successCount
          /\ job'[j].pc = "row"
          /\ job'[j].i = job[j].i + 1]_vars

\* a row failing validation was given up after an earlier row of the job had
\* filled the tables
C5_Witness ==
  \E j \in Started :
    /\ Len(job[j].results) = 2
    /\ MissingAnyRequired(job[j].results[2])
    /\ Terminal(job[j], 2)
    /\ Len(recipes) = 1
    /\ Len(cuisines) = 1

(* -------------------------------- C10 ----------------------------------- *)

\* C10: a row with its required columns whose Country is missing or blank
\* makes no storage call, is not counted in success, and appends exactly one
\* error, 'Recipe "T": Could not determine cuisine from country "C"'.
C10_BlankCountryFails ==
  \A j \in Started :
    LET J == job[j]
    IN  \A r \in 1..Len(J.results) :
          ( /\ Terminal(J, r)
            /\ ~MissingAnyRequired(J.results[r])
            /\ Blank(J.results[r].Country) )
          => /\ ~Did(J, r, "getCuisines")
             /\ ~Did(J, r, "createCuisine")
             /\ ~Did(J, r, "createRecipe")
             /\ ~Did(J, r, "success")
             /\ Times(J, r, "error") = 1
             /\ ErrorOf(J, r) =
                  [pre |-> "Recipe \"",
                   title |-> J.results[r].Title,
                   mid |-> "\": Could not determine cuisine from country \"",
                   arg |-> IF J.results[r].Country = Undefined
                           THEN <<"u", "n", "d", "e", "f", "i", "n", "e", "d">>
                           ELSE J.results[r].Country,
                   post |-> "\""]

\* two rows with every required column failed on their country, one blank
\* and one missing
C10_Witness ==
  \E j \in Started :
    /\ job[j].resolved
    /\ Len(job[j].results) = 2
    /\ job[j].results[1].Country = <<" ", " ">>
    /\ job[j].results[2].Country = Undefined
    /\ ~MissingAnyRequired(job[j].results[1])
    /\ ~MissingAnyRequired(job[j].results[2])
    /\ Len(job[j].result.errors) = 2
    /\ cuisines = <<>>
    /\ recipes = <<>>


\* some stored cuisine, active or not, has the name up to letter case
ExistsNamed(name) ==
  \E k \in 1..Len(cuisines) : toLowerCase(cuisines[k].name) = toLowerCase(name)

\* the country, trimmed, is not a key of the canonicalization table
Unmapped(country) == countryToCuisineMap(trim(country)) = Undefined

(* -------------------------------- C6 ------------------------------------ *)

\* C6: a first import of two complete rows with the countries "Italy" and
\* "italy", with no storage call failing, leaves exactly one cuisine, named
\* "Italian", and both recipes carry its id.
C6_ItalyTwiceOneCuisine ==
  ( /\ Started = {1}
    /\ job[1].resolved
    /\ Len(job[1].csv) = 2
    /\ job[1].csv[1].Country = <<"I", "t", "a", "l", "y">>
    /\ job[1].csv[2].Country = <<"i", "t", "a", "l", "y">>
    /\ \A r \in 1..2 : /\ NonBlankRequired(job[1].csv[r])
                       /\ ~StorageThrew(job[1], r) )
  => /\ Len(cuisines) = 1
     /\ cuisines[1].name = <<"I", "t", "a", "l", "i", "a", "n">>
     /\ Len(recipes) = 2
     /\ recipes[1].cuisineId = cuisines[1].id
     /\ recipes[2].cuisineId = cuisines[1].id

(* -------------------------------- C7 ------------------------------------ *)

\* C7: through any sequence of import jobs run one after another, no two
\* active cuisines have the same name up to letter case.
C7_OneActivePerName ==
  \A a, b \in 1..Len(cuisines) :
    ( /\ cuisines[a].isActive
      /\ cuisines[b].isActive
      /\ toLowerCase(cuisines[a].name) = toLowerCase(cuisines[b].name) )
    => a = b

\* a second job stored a recipe under the cuisine a first job created with
\* another letter case
C7_Witness ==
  /\ job[1].resolved
  /\ job[2].resolved
  /\ job[1].result.success = 1
  /\ job[2].result.success = 1
  /\ job[1].csv[1].Country = <<"W", "a", "k", "a", "n", "d", "a">>
  /\ job[2].csv[1].Country = <<" ", "w", "a", "k", "a", "n", "d", "a", " ">>
  /\ Len(cuisines) = 1
  /\ cuisines[1].isActive

(* -------------------------------- C8 ------------------------------------ *)

\* C8: for a country that is not in the canonicalization table and that no
\* stored cuisine matches case-insensitively, findOrCreateCuisine goes from
\* the lookup to storage.createCuisine without touching the table, and when
\* that call returns exactly one cuisine has been added: active, named the
\* trimmed country, with a fresh id that the function returns.
C8_UnmappedCountryCreated ==
  [][\A j \in JobIds :
       LET J == job[j]
           country == J.results[J.i].Country
           returned == job'[j] # J /\ job'[j].pc # "row"
       IN  /\ ( /\ J.pc = "getCuisines"
                /\ Unmapped(country)
                /\ ~ExistsNamed(trim(country))
                /\ returned )
              => /\ job'[j].pc = "createCuisine"
                 /\ cuisines' = cuisines
           /\ ( /\ J.pc = "createCuisine"
                /\ Unmapped(country)
                /\ ~ExistsNamed(trim(country))
                /\ returned )
              => /\ Len(cuisines') = Len(cuisines) + 1
                 /\ SubSeq(cuisines', 1, Len(cuisines)) = cuisines
                 /\ cuisines'[Len(cuisines')].name = trim(country)
                 /\ cuisines'[Len(cuisines')].isActive
                 /\ \A k \in 1..Len(cuisines) :
                      cuisines[k].id # cuisines'[Len(cuisines')].id
                 /\ job'[j].cuisineId = cuisines'[Len(cuisines')].id
                 /\ job'[j].pc = "createRecipe"]_vars

\* the cuisine "wakanda" was created for the country " wakanda " and its id
\* is the one the row goes on with
C8_Witness ==
  \E j \in Started :
    /\ job[j].pc = "createRecipe"
    /\ job[j].results[job[j].i].Country =
         <<" ", "w", "a", "k", "a", "n", "d", "a", " ">>
    /\ Did(job[j], job[j].i, "newCuisine")
    /\ \E k \in 1..Len(cuisines) :
         /\ cuisines[k].name = <<"w", "a", "k", "a", "n", "d", "a">>
         /\ cuisines[k].isActive
         /\ cuisines[k].id = job[j].cuisineId

(* -------------------------------- C9 ------------------------------------ *)

\* C9: when a stored cuisine has the candidate name up to letter case,
\* findOrCreateCuisine returns the id of such a cuisine, never calls
\* storage.createCuisine and leaves the cuisines as they are.
C9_ExistingCuisineReused ==
  \A j \in Started :
    /\ job[j].pc = "createCuisine" => ~ExistsNamed(job[j].searchName)
    /\ (job[j].pc = "createRecipe" /\ Did(job[j], job[j].i, "existingCuisine"))
       => \E k \in 1..Len(cuisines) :
            /\ toLowerCase(cuisines[k].name) = toLowerCase(job[j].searchName)
            /\ cuisines[k].id = job[j].cuisineId

(* -------------------------------- C11 ----------------------------------- *)

\* C11: a row for which storage.createCuisine threw has exactly one error,
\* the one saying its cuisine could not be determined, made no
\* storage.createRecipe call and is not counted in success; the loop went on
\* past it, and the job returns only after every later row reached its own
\* outcome.
C11_CreateCuisineThrowSkipsRow ==
  \A j \in Started :
    LET J == job[j]
    IN  \A r \in 1..Len(J.results) :
          Did(J, r, "createCuisine.throw")
          => /\ Times(J, r, "error") = 1
             /\ ErrorOf(J, r).pre = "Recipe \""
             /\ ErrorOf(J, r).title = J.results[r].Title
             /\ ErrorOf(J, r).mid = "\": Could not determine cuisine from country \""
             /\ ~Did(J, r, "createRecipe")
             /\ ~Did(J, r, "success")
             /\ J.pc # "done" => J.i > r
             /\ J.pc = "done"
                  => /\ J.resolved
                     /\ \A q \in (r + 1)..Len(J.results) : Terminal(J, q)
                     /\ J.result.success + Len(J.result.errors) = Len(J.csv)

\* a job returned with its first row given up on a failed insert of the
\* cuisine and its second row stored
C11_Witness ==
  \E j \in Started :
    /\ job[j].resolved
    /\ Len(job[j].results) = 2
    /\ Did(job[j], 1, "createCuisine.throw")
    /\ Did(job[j], 2, "success")
    /\ job[j].result.success = 1
    /\ Len(job[j].result.errors) = 1

(* -------------------------------- C12 ----------------------------------- *)

\* C12: a complete row with a country whose image probe came back not OK or
\* threw (the host is unreachable, the request fails), and whose storage
\* calls returned, is stored by one storage.createRecipe call and counted in
\* success, and no entry of errors comes from it.
C12_ImageFailureStillStored ==
  \A j \in Started :
    LET J == job[j]
    IN  \A r \in 1..Len(J.results) :
          ( /\ Terminal(J, r)
            /\ Did(J, r, "fetch.notOk") \/ Did(J, r, "fetch.throw")
            /\ NonBlankRequired(J.results[r])
            /\ ~Blank(J.results[r].Country)
            /\ ~StorageThrew(J, r) )
          => /\ Times(J, r, "createRecipe") = 1
             /\ Times(J, r, "success") = 1
             /\ ~Did(J, r, "error")
             /\ J.successCount >= 1

\* a job returned one stored recipe and no error from a row whose image
\* request threw
C12_Witness ==
  \E j \in Started :
    /\ job[j].resolved
    /\ Len(job[j].results) = 1
    /\ Did(job[j], 1, "fetch.throw")
    /\ Did(job[j], 1, "success")
    /\ job[j].result = [success |-> 1, errors |-> <<>>]
    /\ Len(recipes) = 1

(* -------------------------------- C13 ----------------------------------- *)

\* C13: the recipe that storage.createRecipe stores for a row has as
\* featuredImage the trimmed Image url of the row, whatever the probe gave
\* (own-bucket URL, OK, not OK, thrown), and the empty string when the Image
\* url is absent or blank, in which case no request was made for the row.
C13_FeaturedImageIsTrimmedUrl ==
  [][\A j \in JobIds :
       LET J == job[j]
           row == J.results[J.i]
           new == recipes'[Len(recipes')]
       IN  ( /\ J.pc = "createRecipe"
             /\ job'[j] # J
             /\ Len(recipes') = Len(recipes) + 1 )
           => /\ ~Blank(row.ImageUrl) => new.featuredImage = trim(row.ImageUrl)
              /\ Blank(row.ImageUrl)
                   => /\ new.featuredImage = <<>>
                      /\ ~Did(J, J.i, "fetch")
              /\ Did(J, J.i, "fetch")
                   => \/ Did(J, J.i, "fetch.ok")
                      \/ Did(J, J.i, "fetch.notOk")
                      \/ Did(J, J.i, "fetch.throw")]_vars

\* one job stored a recipe whose image request was answered not OK, with the
\* trimmed URL, and a recipe of a row with a blank Image url, with ''
C13_Witness ==
  \E j \in Started :
    /\ Len(job[j].results) = 2
    /\ Did(job[j], 1, "fetch.notOk")
    /\ Did(job[j], 1, "success")
    /\ job[j].results[2].ImageUrl = <<" ">>
    /\ Did(job[j], 2, "success")
    /\ Len(recipes) = 2
    /\ recipes[1].featuredImage = <<"x", ".", "i", "o", "/", "a">>
    /\ recipes[2].featuredImage = <<>>

(* -------------------------------- C14 ----------------------------------- *)

\* C14: every recipe a step of the import adds to the table is added with
\* isApproved = false, whatever its row contains, and the import never sets
\* isApproved of a stored recipe.
C14_CreatedUnapproved ==
  [][/\ \A k \in (Len(recipes) + 1)..Len(recipes') : recipes'[k].isApproved = FALSE
     /\ \A k \in 1..Len(recipes) :
          k <= Len(recipes') => recipes'[k].isApproved = recipes[k].isApproved]_vars

\* two recipes of different rows are stored, one of them from a row with an
\* image and keywords, both unapproved
C14_Witness ==
  /\ Len(recipes) = 2
  /\ recipes[1].title # recipes[2].title
  /\ \E k \in 1..2 : recipes[k].tags # <<>> /\ recipes[k].featuredImage # <<>>
  /\ \A k \in 1..2 : recipes[k].isApproved = FALSE

(* -------------------------------- C15 ----------------------------------- *)

\* the rows, over all jobs, that were counted in success
SuccessRows ==
  {jr \in JobIds \X (1..MaxTotalRows) :
     /\ jr[2] <= Len(job[jr[1]].results)
     /\ Did(job[jr[1]], jr[2], "success")}

\* C15: the recipes in the table are as many as the rows counted in success,
\* so a job adds as many recipes as the success it returns; a step that
\* counts a row in success appends exactly one recipe, a step that records
\* an error appends none, and no step changes or removes a stored recipe.
C15_RecipesMatchSuccess ==
  [][/\ Len(recipes') >= Len(recipes)
     /\ SubSeq(recipes', 1, Len(recipes)) = recipes
     /\ Len(recipes') = Cardinality(SuccessRows')
     /\ \A j \in JobIds :
          /\ job'[j].successCount = job[j].successCount + 1
               => Len(recipes') = Len(recipes) + 1
          /\ Len(job'[j].errors) > Len(job[j].errors) => recipes' = recipes
          /\ job'[j].resolved
               => job'[j].result.success =
                    Cardinality({jr \in SuccessRows' : jr[1] = j})]_vars

\* a job returned success = 1 after storing its first row and failing on
\* storage.createRecipe for its second
C15_Witness ==
  \E j \in Started :
    /\ job[j].resolved
    /\ Len(job[j].results) = 2
    /\ Did(job[j], 1, "success")
    /\ Did(job[j], 2, "createRecipe.throw")
    /\ job[j].result.success = 1
    /\ Len(recipes) = 1

(* -------------------------------- C16 ----------------------------------- *)

\* C16: the recipe a job stores carries the authorId the job was called
\* with, and a job keeps that authorId from its call to its return.
C16_AuthorIsCaller ==
  [][\A j \in JobIds :
       /\ job[j].pc # "idle" => job'[j].authorId = job[j].authorId
       /\ ( /\ job[j].pc = "createRecipe"
            /\ job'[j] # job[j]
            /\ Len(recipes') = Len(recipes) + 1 )
          => recipes'[Len(recipes')].authorId = job[j].authorId]_vars

\* two imports of the same line by two administrators left one recipe each
C16_Witness ==
  /\ job[1].resolved
  /\ job[2].resolved
  /\ job[1].authorId = "admin-2"
  /\ job[2].authorId = "admin-1"
  /\ job[1].csv = job[2].csv
  /\ Len(recipes) = 2
  /\ recipes[1].authorId = "admin-2"
  /\ recipes[2].authorId = "admin-1"

(* -------------------------------- C17 ----------------------------------- *)

\* C17: within a job the rows are taken in the order of the input lines, and
\* every storage or network operation of a row comes after the terminal
\* outcome (success counted or error recorded) of each earlier row of the
\* job: the operations of the rows never interleave.
C17_RowsOneAtATime ==
  \A j \in Started :
    LET J == job[j]
    IN  /\ \A r \in 1..Len(J.results) : J.results[r] = J.csv[r]
        /\ \A a, b \in 1..Len(J.log) :
             a < b => J.log[a].row <= J.log[b].row
        /\ \A b \in 1..Len(J.log) :
             \A q \in 1..(J.log[b].row - 1) :
               \E a \in 1..(b - 1) :
                 /\ J.log[a].row = q
                 /\ J.log[a].op \in {"success", "error"}
        /\ \A r \in 1..Len(J.results) :
             Terminal(J, r)
             => RowOps(J, r)[Len(RowOps(J, r))] \in {"success", "error"}

\* the second row of a job has made its storage calls after the first one
\* was stored
C17_Witness ==
  \E j \in Started :
    /\ Len(job[j].results) = 2
    /\ Did(job[j], 1, "createRecipe")
    /\ Did(job[j], 1, "success")
    /\ Did(job[j], 2, "getCuisines")
    /\ Did(job[j], 2, "createRecipe")

(* -------------------------------- C18 ----------------------------------- *)

\* the row's cuisine was resolved: findOrCreateCuisine returned an id
CuisineResolved(J, r) == Did(J, r, "existingCuisine") \/ Did(J, r, "newCuisine")

\* C18: the image request of a row is made only after the cuisine of the
\* row was resolved, and a row given up because its cuisine could not be
\* determined made no image request.
C18_CuisineBeforeImage ==
  \A j \in Started :
    LET J == job[j]
    IN  \A r \in 1..Len(J.results) :
          /\ Did(J, r, "fetch") => CuisineResolved(J, r)
          /\ ( /\ Did(J, r, "error")
               /\ ErrorOf(J, r).mid = "\": Could not determine cuisine from country \"" )
             => ~Did(J, r, "fetch")

(* -------------------------------- C19 ----------------------------------- *)

\* C19: a job whose parser reaches 'end' returns: its promise is resolved
\* with the successCount and the errors accumulated over its rows, whatever
\* the outcomes of the rows (skipped, failed on a throwing call, stored),
\* and it is never rejected.
C19_JobResolves ==
  /\ [](\A j \in JobIds :
          /\ ~job[j].rejected
          /\ job[j].pc = "done"
               => /\ job[j].resolved
                  /\ job[j].result = [success |-> job[j].successCount,
                                      errors |-> job[j].errors]
                  /\ \A r \in 1..Len(job[j].csv) : Terminal(job[j], r))
  /\ \A j \in JobIds :
       (job[j].pc # "idle") ~> (job[j].resolved \/ job[j].pc = "streamError")

\* a job returned although a storage call threw for one of its rows
C19_Witness ==
  \E j \in Started :
    /\ job[j].resolved
    /\ Len(job[j].csv) = 2
    /\ Did(job[j], 1, "getCuisines.throw")
    /\ Len(job[j].result.errors) >= 1

(* -------------------------------- C20 ----------------------------------- *)

\* C20: when the parser emits 'error' instead of 'end', no row is processed
\* and the promise of the job is rejected, so that the caller gets the
\* failure.
C20_StreamErrorRejects ==
  \A j \in Started :
    job[j].pc = "streamError"
    => /\ job[j].log = <<>>
       /\ ~job[j].resolved
       /\ job[j].rejected

(* -------------------------------- C21 ----------------------------------- *)

\* C21: "USA" and "United States" yield the one candidate name "American";
\* and when an earlier row of the job created the cuisine of a candidate
\* name, the lookup of a later row with the same candidate name returns that
\* cuisine: storage.createCuisine is not called again, the table is as
\* before, and the row goes on with the id under which the earlier row's
\* recipe was stored.
C21_LaterRowFindsCreatedCuisine ==
  [][/\ SearchName(<<"U", "S", "A">>) = <<"A", "m", "e", "r", "i", "c", "a", "n">>
     /\ SearchName(<<"U", "n", "i", "t", "e", "d", " ", "S", "t", "a", "t", "e", "s">>)
          = <<"A", "m", "e", "r", "i", "c", "a", "n">>
     /\ \A j \in JobIds :
          LET J == job[j]
              name == SearchName(J.results[J.i].Country)
          IN  \A r \in 1..(J.i - 1) :
                ( /\ J.pc = "getCuisines"
                  /\ job'[j] # J
                  /\ ~Did(job'[j], J.i, "getCuisines.throw")
                  /\ Did(J, r, "newCuisine")
                  /\ SearchName(J.results[r].Country) = name )
                => /\ job'[j].pc = "createRecipe"
                   /\ Did(job'[j], J.i, "existingCuisine")
                   /\ ~Did(job'[j], J.i, "createCuisine")
                   /\ cuisines' = cuisines
                   /\ \E k \in 1..Len(cuisines) :
                        /\ cuisines[k].name = name
                        /\ cuisines[k].id = job'[j].cuisineId
                   /\ Did(J, r, "success")
                        => \E m \in 1..Len(recipes) :
                             recipes[m].cuisineId = job'[j].cuisineId]_vars

\* a job stored two recipes of the same unmapped country under the one
\* cuisine its first row created
C21_Witness ==
  \E j \in Started :
    /\ Len(job[j].results) = 2
    /\ job[j].results[1].Country = job[j].results[2].Country
    /\ Did(job[j], 1, "newCuisine")
    /\ Did(job[j], 2, "existingCuisine")
    /\ Did(job[j], 2, "success")
    /\ Len(cuisines) = 1
    /\ Len(recipes) = 2
    /\ recipes[1].cuisineId = recipes[2].cuisineId

(* -------------------------------- C22 ----------------------------------- *)

\* C22: no step of a job removes or changes a stored cuisine or recipe: the
\* two tables only grow at their end while a job runs, also in the step that
\* gives a row up, and also when storage.createRecipe throws for the row
\* that created a cuisine.
C22_TablesOnlyGrow ==
  [][\A j \in JobIds :
       job'[j] # job[j]
       => /\ Len(cuisines') >= Len(cuisines)
          /\ SubSeq(cuisines', 1, Len(cuisines)) = cuisines
          /\ Len(recipes') >= Len(recipes)
          /\ SubSeq(recipes', 1, Len(recipes)) = recipes
          /\ Len(job'[j].errors) > Len(job[j].errors)
               => cuisines' = cuisines /\ recipes' = recipes]_vars

\* the cuisine a row created is in the table after storage.createRecipe
\* threw for that row, and the recipe of the row before it is there too
C22_Witness ==
  \E j \in Started :
    /\ Len(job[j].results) = 2
    /\ Did(job[j], 1, "success")
    /\ Did(job[j], 2, "newCuisine")
    /\ Did(job[j], 2, "createRecipe.throw")
    /\ Len(cuisines) = 2
    /\ Len(recipes) = 1

(* -------------------------------- C23 ----------------------------------- *)

\* the title a message names: the row's, or 'Unknown' when it is missing
NamedTitle(row) ==
  IF Missing(row.Title) THEN <<"U", "n", "k", "n", "o", "w", "n">> ELSE row.Title

\* C23: the step in which a row fails (validation, cuisine resolution, a
\* thrown storage call) appends exactly one message to errors, which names
\* the title of the row or 'Unknown'; the messages before it come from
\* earlier rows; and the job goes on with the next row.
C23_OneMessagePerFailure ==
  [][\A j \in JobIds :
       LET J == job[j]
           failed == Len(job'[j].log) > Len(J.log)
                     /\ job'[j].log[Len(job'[j].log)] = Event(J.i, "error")
       IN  /\ failed
             => /\ Len(job'[j].errors) = Len(J.errors) + 1
                /\ SubSeq(job'[j].errors, 1, Len(J.errors)) = J.errors
                /\ job'[j].errors[Len(job'[j].errors)].title = NamedTitle(J.results[J.i])
                /\ Times(job'[j], J.i, "error") = 1
                /\ ~Did(job'[j], J.i, "success")
                /\ \A k \in 1..Len(J.log) :
                     J.log[k].op = "error" => J.log[k].row < J.i
                /\ job'[j].pc = "row"
                /\ job'[j].i = J.i + 1
                /\ job'[j].successCount = J.successCount
           /\ (J.pc # "idle" /\ ~failed) => job'[j].errors = J.errors]_vars

\* a job returned two messages in the order of their rows: one of a row
\* without title and one of a row whose storage call threw
C23_Witness ==
  \E j \in Started :
    /\ job[j].resolved
    /\ Len(job[j].csv) = 2
    /\ job[j].csv[1].Title = Undefined
    /\ StorageThrew(job[j], 2)
    /\ Len(job[j].result.errors) = 2
    /\ job[j].result.errors[1].title = <<"U", "n", "k", "n", "o", "w", "n">>
    /\ job[j].result.errors[2].title = job[j].csv[2].Title

(* -------------------------------- C24 ----------------------------------- *)

\* C24: a row for which storage.createRecipe threw is not counted in
\* success and has exactly one error, 'Error creating recipe "T": M' with T
\* its title and M the message of the exception; the loop went on past it
\* and the job returns only after the remaining rows reached their outcome.
C24_CreateRecipeThrowRecorded ==
  \A j \in Started :
    LET J == job[j]
    IN  /\ J.successCount =
             Cardinality({r \in 1..Len(J.results) : Did(J, r, "success")})
        /\ \A r \in 1..Len(J.results) :
             Did(J, r, "createRecipe.throw")
             => /\ ~Did(J, r, "success")
                /\ Times(J, r, "error") = 1
                /\ ErrorOf(J, r) =
                     [pre |-> "Error creating recipe \"",
                      title |-> J.results[r].Title,
                      mid |-> "\": ", arg |-> <<>>, post |-> "createRecipe"]
                /\ J.pc # "done" => J.i > r
                /\ J.pc = "done"
                     => /\ J.resolved
                        /\ \A q \in (r + 1)..Len(J.results) : Terminal(J, q)

\* a job returned success = 1 and one error: storage.createRecipe threw for
\* its first row and stored its second
C24_Witness ==
  \E j \in Started :
    /\ job[j].resolved
    /\ Len(job[j].results) = 2
    /\ Did(job[j], 1, "createRecipe.throw")
    /\ Did(job[j], 2, "success")
    /\ job[j].result.success = 1
    /\ Len(job[j].result.errors) = 1
    /\ Len(recipes) = 1

(* -------------------------------- C25 ----------------------------------- *)

\* C25: whatever query string a client sends, no GET /api/recipes returns a
\* recipe that is not approved, and no GET /api/recipes/:id shows such a
\* recipe to a client that is not an admin.
C25_UnapprovedHidden ==
  /\ \A query \in Queries :
       \A k \in ListRecipesSession(recipes, query)
                  \cup ListRecipesReplit(recipes, query)
                  \cup ListRecipesNew(recipes, query) :
         recipes[k].isApproved
  /\ \A id \in 1..Len(recipes), role \in {"none", "user"} :
       \A k \in GetRecipeSession(recipes, id, role) \cup GetRecipeReplit(recipes, id) :
         recipes[k].isApproved

(* -------------------------------- C27 ----------------------------------- *)

RECURSIVE Flatten(_)
\* the pieces put one after another
Flatten(ss) == IF ss = <<>> THEN <<>> ELSE Head(ss) \o Flatten(Tail(ss))

\* the places of s where a run of characters other than blank and comma begins
RunStarts(s) ==
  {k \in 1..Len(s) :
     /\ s[k] \notin {" ", ","}
     /\ k = 1 \/ s[k - 1] \in {" ", ","}}

\* C27: the tags stored with a recipe are the comma-separated pieces of the
\* row's Keywords, in their order, each without blanks around it and none
\* empty (for pieces that hold no blank inside: as many tags as the value has
\* runs of characters, and together its characters other than blank and
\* comma); they are the empty list when Keywords is absent or blank; and a
\* row is not given up on account of its Keywords.
C27_TagsFromKeywords ==
  [][\A j \in JobIds :
       LET J == job[j]
           row == J.results[J.i]
           tags == recipes'[Len(recipes')].tags
       IN  /\ ( /\ J.pc = "createRecipe"
                /\ job'[j] # J
                /\ Len(recipes') = Len(recipes) + 1 )
              => /\ Blank(row.Keywords) => tags = <<>>
                 /\ ~Blank(row.Keywords)
                      => /\ \A k \in 1..Len(tags) :
                              /\ tags[k] # <<>>
                              /\ tags[k][1] # " "
                              /\ tags[k][Len(tags[k])] # " "
                              /\ \A n \in 1..Len(tags[k]) : tags[k][n] # ","
                         /\ Flatten(tags) =
                              SelectSeq(row.Keywords, LAMBDA c : c \notin {" ", ","})
                         /\ Len(tags) = Cardinality(RunStarts(row.Keywords))
           /\ ( /\ J.pc \in {"row", "fetch"}
                /\ job'[j] # J
                /\ J.i <= Len(J.results)
                /\ ~MissingAnyRequired(row)
                /\ ~Blank(row.Country) )
              => /\ job'[j].pc \in {"fetch", "getCuisines"}
                 /\ job'[j].errors = J.errors]_vars

\* one job stored a recipe with the tags a, b, c of the Keywords ' a, b,,c '
\* and a recipe without tags of the Keywords ' , '
C27_Witness ==
  \E j \in Started :
    /\ Len(job[j].results) = 2
    /\ job[j].results[1].Keywords = <<" ", "a", ",", " ", "b", ",", ",", "c", " ">>
    /\ job[j].results[2].Keywords = <<" ", ",", " ">>
    /\ Len(recipes) = 2
    /\ recipes[1].tags = <<<<"a">>, <<"b">>, <<"c">>>>
    /\ recipes[2].tags = <<>>

(* -------------------------------- C29 ----------------------------------- *)

\* C29: with no storage call failing for a reason outside the tables, every
\* complete row with a country is imported, also when the cuisine of its
\* candidate name was deactivated before; and the cuisine a recipe is about
\* to be stored under is an active one.
C29_DeactivatedNameStillImports ==
  \A j \in Started :
    LET J == job[j]
    IN  /\ \A r \in 1..Len(J.results) :
             ( /\ faults = 0
               /\ Terminal(J, r)
               /\ NonBlankRequired(J.results[r])
               /\ ~Blank(J.results[r].Country) )
             => Did(J, r, "success")
        /\ J.pc = "createRecipe"
             => \E k \in 1..Len(cuisines) :
                  /\ cuisines[k].id = J.cuisineId
                  /\ cuisines[k].isActive

(* -------------------------------- C26 ----------------------------------- *)

\* C26: in the fetch-and-store variant the step that ends an image download
\* or an upload never fails the row: the row goes on to storage.createRecipe
\* with the URL it had (trimmed) when the download was not ok, the download
\* threw or the upload threw, and with the generated public URL only when
\* both returned; the URL is stored with the recipe whenever
\* storage.createRecipe returns, and only a throwing storage.createRecipe
\* puts a message of a complete row into errors.
C26_UploadFallsBack ==
  [][\A j \in JobIds :
       LET J == job[j]
           J2 == job'[j]
           row == J.results[J.i]
           imageUrl == trim(row.ImageUrl)
       IN  /\ (J.pc \in {"download", "upload"} /\ J2 # J) =>
                /\ J2.errors = J.errors
                /\ J2.i = J.i
                /\ J2.pc \in {"upload", "createRecipe"}
                /\ J2.pc = "upload" <=>
                     J2.log[Len(J2.log)].op = "download.ok"
                /\ J2.pc = "createRecipe" =>
                     LET outcome == J2.log[Len(J2.log) - 1].op
                     IN  IF outcome = "upload.ok"
                         THEN /\ J2.featuredImageUrl = PublicUrl(J.key)
                              /\ J2.featuredImageUrl # imageUrl
                              /\ includes(J2.featuredImageUrl,
                                          SafeFileName(row.Title))
                              /\ Did(J2, J.i, "download.ok")
                         ELSE J2.featuredImageUrl = imageUrl
           /\ (J.pc = "createRecipe" /\ J2 # J /\ faults' = faults) =>
                /\ Len(recipes') = Len(recipes) + 1
                /\ recipes'[Len(recipes')].featuredImage = J.featuredImageUrl
                /\ J2.errors = J.errors
           /\ (Len(J2.errors) > Len(J.errors) /\ ~MissingRequired(row)) =>
                /\ J.pc = "createRecipe"
                /\ faults' = faults + 1
    ]_vars

\* both outcomes next to each other: a job stored one recipe under the
\* generated URL of its title and one under the URL of its row, after an
\* upload that threw or a download that failed
C26_Witness ==
  \E j \in Started :
    /\ job[j].resolved
    /\ job[j].result.success = 2
    /\ \E k \in 1..Len(recipes) :
         includes(recipes[k].featuredImage,
                  <<"r", "e", "c", "i", "p", "e", "-", "i", "m", "a", "g", "e", "s", "/",
                    "m", "y", "-", "p", "i", "e", "-", "1", ".", "p", "n", "g">>)
    /\ \E k \in 1..Len(recipes) :
         recipes[k].featuredImage = <<"x", ".", "i", "o", "/", "a">>
    /\ \E r \in 1..2 :
         \/ Did(job[j], r, "upload.throw")
         \/ Did(job[j], r, "download.notOk")
         \/ Did(job[j], r, "download.throw")

(* -------------------------------- C28 ----------------------------------- *)

\* C28: however the awaits of two overlapping imports interleave, no two
\* active cuisines have names that are equal without regard to case, and no
\* two rows with the same candidate name both create a cuisine.
C28_NoDuplicateUnderOverlap ==
  /\ \A a, b \in getCuisines(cuisines) :
       a # b => toLowerCase(cuisines[a].name) # toLowerCase(cuisines[b].name)
  /\ \A j1, j2 \in Started :
       \A r1 \in 1..Len(job[j1].results), r2 \in 1..Len(job[j2].results) :
         ( /\ <<j1, r1>> # <<j2, r2>>
           /\ Did(job[j1], r1, "newCuisine")
           /\ Did(job[j2], r2, "newCuisine") )
         => SearchName(job[j1].results[r1].Country)
              # SearchName(job[j2].results[r2].Country)

(* -------------------------------- C30 ----------------------------------- *)

\* C30: when a file is imported a second time right after its first import,
\* and no storage call fails for a reason outside the tables, the second
\* import creates no cuisine, returns the success count and the errors of
\* the first, and stores one more copy of each recipe the first one stored.
C30_SecondRunSameResult ==
  \A j \in JobIds :
    ( /\ j > 1
      /\ job[j].resolved
      /\ job[j - 1].resolved
      /\ job[j].csv = job[j - 1].csv
      /\ faults = 0 )
    => LET n == job[j - 1].result.success
           m == Len(recipes)
       IN  /\ job[j].result = job[j - 1].result
           /\ \A r \in 1..Len(job[j].results) : ~Did(job[j], r, "newCuisine")
           /\ m >= 2 * n
           /\ SubSeq(recipes, m - n + 1, m)
                = SubSeq(recipes, m - 2 * n + 1, m - n)

====
